---- MODULE Spec2Model ----
(***************************************************************************)
(* Model of the tablet manager's ActionAgent                               *)
(* (go/vt/tabletmanager/agent.go): the bootstrap done by Start, the action *)
(* event loop draining the zk action queue, and the registration of the    *)
(* tablet's address in the serving graph by verifyZkServingAddrs.          *)
(***************************************************************************)
EXTENDS Integers, Sequences, FiniteSets, TLC

\* ------------------------------------------------------------------ bounds
\* Number of action nodes the external creator puts in the queue.
MaxNodes == 3
\* Sequence number of the first action node created in a run.
FirstSeq == 9
\* Number of decimal digits of the sequence suffix of an action node name.
Width == 2

\* ------------------------------------------------------------- the agent
VARIABLES
    pc,              \* position of the agent: in Start, or in actionEventLoop
    _tablet,         \* agent._tablet, the cached TabletInfo (NilTablet before the first read)
    zkTablet,        \* the tablet node in zk: [Uid, Type, Addr, MysqlAddr]
    zkNodes,         \* which of the replication and action nodes exist in zk
    vtActionBinPath, \* agent.vtActionBinPath
    MycnfPath,       \* agent.MycnfPath
    zkErr,           \* the errors zconn.Create returned to verifyZkPaths, while
                     \* Start is in it and after it
    queue,           \* names of the children of the action node
    malformed,       \* names of the action nodes whose data does not decode
    nextSeq,         \* the sequence number zk gives the next action node
    site,            \* the call of handleActionQueue in progress: top (line 338),
                     \* event (line 352) or none
    listedSorted,    \* whether ChildrenW returned the children in sorted order
    children,        \* children after sort.Strings
    idx,             \* position of the for loop of handleActionQueue in children
    running,         \* the action node vtaction is running for, or NONE
    drainLog,        \* the dispatchAction calls made by the current
                     \* handleActionQueue: the node, and whether the call failed
    last,            \* the last dispatchAction call of the current
                     \* handleActionQueue: how it ended, what it did to the cache
    launched,        \* action nodes vtaction was started for, ever
    watch            \* the watch of the last ChildrenW: none, armed, or the event in it

\* ------------------------------------------------------ the serving graph
VARIABLES
    zkAddrs,         \* the serving graph node of the shard and type: [exists, ver, val]
    zkShard,         \* the shard node: the uids of the tablets it lists
    tab,             \* tab[a]: the TabletInfo replica a has cached
    pub,             \* pub[a]: the call of verifyZkServingAddrs replica a is in
    calls            \* how many times the replicas called it, in all

graphVars == <<zkAddrs, zkShard, tab, pub, calls>>

agentVars == <<pc, _tablet, zkTablet, zkNodes, vtActionBinPath, MycnfPath, zkErr, queue,
               malformed, nextSeq, site, listedSorted, children, idx, running,
               drainLog, last, launched, watch>>

vars == <<agentVars, graphVars>>

\* The nil *zookeeper.Stat of a node that does not exist; the Stat of a node
\* that exists is <<version>>.
NIL == <<>>
\* No action node.
NONE == <<>>

\* ---------------------------------------------------------- action names
\* The name zk gives a sequential node: the sequence number, zero padded.
RECURSIVE Pow10(_)
Pow10(k) == IF k = 0 THEN 1 ELSE 10 * Pow10(k - 1)

Name(n) == [i \in 1..Width |-> (n \div Pow10(Width - i)) % 10]

SeqNums == FirstSeq..(FirstSeq + MaxNodes - 1)

\* Go's string comparison, byte by byte.
RECURSIVE StrLess(_, _)
StrLess(a, b) ==
    IF b = <<>> THEN FALSE
    ELSE IF a = <<>> THEN TRUE
    ELSE IF Head(a) # Head(b) THEN Head(a) < Head(b)
    ELSE StrLess(Tail(a), Tail(b))

RECURSIVE Insert(_, _)
Insert(x, s) ==
    IF s = <<>> THEN <<x>>
    ELSE IF StrLess(Head(s), x) THEN <<Head(s)>> \o Insert(x, Tail(s))
    ELSE <<x>> \o s

RECURSIVE SortStrings(_)
SortStrings(s) == IF s = <<>> THEN <<>> ELSE Insert(Head(s), SortStrings(Tail(s)))

\* The orders in which ChildrenW can return the children S.
Listings(S) ==
    {f \in [1..Cardinality(S) -> S] : \A i, j \in DOMAIN f : i # j => f[i] # f[j]}

\* --------------------------------------------------------- serving graph
\* Number of replicas that register in the same serving graph node.
NumAgents == 2
\* Number of calls of verifyZkServingAddrs the replicas make in all.
MaxPublish == 2

Agents == 1..NumAgents
\* The uid of a tablet that is not one of the agents.
OtherUid == NumAgents + 1
Uids == Agents \cup {OtherUid}

\* Tablet types; the serving ones are those TabletInfo.IsServingType accepts.
Types == {"replica", "spare"}
IsServingType(tablet) == tablet.Type \in {"master", "replica", "rdonly"}

Hosts == {"hostA", "hostB"}
VtPorts == {6700, 6701}
MysqlPorts == {3306, 3307}
\* The host an agent runs on, and the ports its -bind-addr and -mysql-addr name.
Hostname(a) == IF a % 2 = 1 THEN "hostA" ELSE "hostB"
BindPort == 6700
MysqlBindPort == 3306

\* An address "host:port" is the pair of its two parts: fmt.Sprintf("%v:%v")
\* builds it and net.SplitHostPort takes it apart.
JoinHostPort(host, port) == <<host, port>>
splitHostPort(addr) == [host |-> addr[1], port |-> addr[2]]

\* resolveAddr: the host left blank becomes the hostname of the machine.
resolveAddr(addr, hostname) ==
    LET hp == splitHostPort(addr)
    IN  JoinHostPort(IF hp.host = "" THEN hostname ELSE hp.host, hp.port)

\* The tablet record of replica a with resolved addresses.
ResolvedTablet(a, type) ==
    [Uid |-> a, Type |-> type,
     Addr |-> resolveAddr(JoinHostPort("", BindPort), Hostname(a)),
     MysqlAddr |-> resolveAddr(JoinHostPort("", MysqlBindPort), Hostname(a))]

\* naming.VtnsAddr: Uid, Host and the NamedPortMap with _vtocc and _mysql.
AddrEntries == [Uid : Uids, Host : Hosts, vtocc : VtPorts, mysql : MysqlPorts]

\* The data of a zk node is a string: empty, the json toJson writes for a
\* naming.VtnsAddrs, or text that json.Unmarshal rejects.
EmptyVal == [kind |-> "empty", entries |-> <<>>]
GarbageVal == [kind |-> "garbage", entries |-> <<>>]
toJson(addrs) == [kind |-> "json", entries |-> addrs]
Unmarshal(value) ==
    IF value.kind = "json" THEN [err |-> FALSE, addrs |-> value.entries]
    ELSE [err |-> TRUE, addrs |-> <<>>]

\* A zk node: whether it exists, its version and its data.
NoNode == [exists |-> FALSE, ver |-> 0, val |-> EmptyVal]

\* vtnsAddrForTablet taking the _vtocc port from MysqlAddr.
vtnsAddrForTablet_MysqlPort(tablet) ==
    [Uid |-> tablet.Uid,
     Host |-> splitHostPort(tablet.Addr).host,
     vtocc |-> splitHostPort(tablet.MysqlAddr).port,
     mysql |-> splitHostPort(tablet.MysqlAddr).port]

vtnsAddrForTablet(tablet) ==
    [Uid |-> tablet.Uid,
     Host |-> splitHostPort(tablet.Addr).host,
     vtocc |-> splitHostPort(tablet.Addr).port,
     mysql |-> splitHostPort(tablet.MysqlAddr).port]

\* The body of the range loop of updateEndpoints for the entry of this
\* tablet. entry is the loop variable, a copy of the slice element: the
\* assignment to entry.Host changes the copy, the assignments to
\* entry.NamedPortMap change the map the slice element shares.
rangeBody(entry, tablet) ==
    LET vtAddr == JoinHostPort(entry.Host, entry.vtocc)
        mysqlAddr == JoinHostPort(entry.Host, entry.mysql)
    IN  IF vtAddr # tablet.Addr \/ mysqlAddr # tablet.MysqlAddr
        THEN [entry EXCEPT !.vtocc = splitHostPort(tablet.Addr).port,
                           !.mysql = splitHostPort(tablet.MysqlAddr).port]
        ELSE entry

\* updateEndpoints without the check of oldStat: a node that does not exist
\* is given the address of the tablet.
updateEndpoints_NoSkip(oldValue, oldStat, tablet) ==
    IF oldValue.kind = "garbage" THEN [newValue |-> EmptyVal, err |-> "decode"]
    ELSE [newValue |-> toJson(Append(oldValue.entries, vtnsAddrForTablet(tablet))),
          err |-> "nil"]

\* updateEndpoints without the search for the entry of the tablet: its
\* address is appended every time.
updateEndpoints_AlwaysAppend(oldValue, oldStat, tablet) ==
    IF oldStat = NIL THEN [newValue |-> EmptyVal, err |-> "skip"]
    ELSE IF oldValue.kind = "garbage" THEN [newValue |-> EmptyVal, err |-> "decode"]
    ELSE [newValue |-> toJson(Append(oldValue.entries, vtnsAddrForTablet(tablet))),
          err |-> "nil"]

\* updateEndpoints building the new data from the address of the tablet
\* alone, without the addresses it decoded.
updateEndpoints_OnlyOwn(oldValue, oldStat, tablet) ==
    IF oldStat = NIL THEN [newValue |-> EmptyVal, err |-> "skip"]
    ELSE IF oldValue.kind = "garbage" THEN [newValue |-> EmptyVal, err |-> "decode"]
    ELSE [newValue |-> toJson(<<vtnsAddrForTablet(tablet)>>), err |-> "nil"]

\* updateEndpoints going on after the error of json.Unmarshal, with the
\* empty list of addresses.
updateEndpoints_DecodeIgnored(oldValue, oldStat, tablet) ==
    IF oldStat = NIL THEN [newValue |-> EmptyVal, err |-> "skip"]
    ELSE LET u == Unmarshal(oldValue)
             found == {i \in DOMAIN u.addrs : u.addrs[i].Uid = tablet.Uid}
         IN  IF found # {}
             THEN LET i == CHOOSE k \in found : \A m \in found : k <= m
                  IN  [newValue |->
                          toJson([u.addrs EXCEPT ![i] = rangeBody(@, tablet)]),
                       err |-> "nil"]
             ELSE [newValue |-> toJson(Append(u.addrs, vtnsAddrForTablet(tablet))),
                   err |-> "nil"]

\* updateEndpoints, the function given to RetryChange: the new data of the
\* serving graph node, or the error (skip: skipUpdateErr).
updateEndpoints(oldValue, oldStat, tablet) ==
    IF oldStat = NIL THEN [newValue |-> EmptyVal, err |-> "skip"]
    ELSE IF oldValue.kind = "empty"
    THEN [newValue |-> toJson(<<vtnsAddrForTablet(tablet)>>), err |-> "nil"]
    ELSE LET u == Unmarshal(oldValue)
             found == {i \in DOMAIN u.addrs : u.addrs[i].Uid = tablet.Uid}
         IN  IF u.err THEN [newValue |-> EmptyVal, err |-> "decode"]
             ELSE IF found # {}
             THEN LET i == CHOOSE k \in found : \A m \in found : k <= m
                  IN  [newValue |->
                          toJson([u.addrs EXCEPT ![i] = rangeBody(@, tablet)]),
                       err |-> "nil"]
             ELSE [newValue |-> toJson(Append(u.addrs, vtnsAddrForTablet(tablet))),
                   err |-> "nil"]

Stat(node) == IF node.exists THEN <<node.ver>> ELSE NIL

\* What updateEndpoints is given: no node, a node with empty data or with
\* data that does not decode, or a list of addresses in which that of the
\* tablet is absent, stale (host or a port is not the tablet's) or current.
CaseOf(node, tablet) ==
    LET mine == {i \in DOMAIN node.val.entries : node.val.entries[i].Uid = tablet.Uid}
    IN  IF ~node.exists THEN "nonode"
        ELSE IF node.val.kind # "json" THEN node.val.kind
        ELSE IF mine = {} THEN "absent"
        ELSE IF \E i \in mine : node.val.entries[i] # vtnsAddrForTablet(tablet)
        THEN "stale"
        ELSE "current"

\* A call of verifyZkServingAddrs: where it is (idle, get, set, done); while
\* RetryChange is between its read and its write, the node it read (old) and
\* the data it is about to write; what RetryChange returned (rc), what the
\* call returned (ret), whether it wrote the node, read it again after a
\* version conflict, and what the last read found (case).
NoCall ==
    [pc |-> "idle", serving |-> FALSE, authorized |-> FALSE, old |-> NoNode,
     newValue |-> EmptyVal, case |-> "none", rc |-> "none", ret |-> "none",
     warned |-> FALSE, wrote |-> FALSE, retried |-> FALSE]

\* What verifyZkServingAddrs makes of the error of RetryChange: lines 200-205.
verifyReturn(p, rc) ==
    [p EXCEPT !.pc = "done", !.rc = rc, !.old = NoNode, !.newValue = EmptyVal,
              !.ret = IF rc = "skip" THEN "nil" ELSE rc,
              !.warned = (rc = "skip")]

\* verifyZkServingAddrs without the check of shardInfo.Contains.
verifyBegin_NoContains(tablet, shard, shardOk) ==
    IF ~IsServingType(tablet)
    THEN [NoCall EXCEPT !.pc = "done", !.ret = "nil"]
    ELSE IF ~shardOk
    THEN [NoCall EXCEPT !.pc = "done", !.serving = TRUE, !.ret = "store"]
    ELSE [NoCall EXCEPT !.pc = "get", !.serving = TRUE, !.authorized = TRUE]

\* verifyZkServingAddrs up to the call of RetryChange. shardOk: ReadShard
\* succeeds.
verifyBegin(tablet, shard, shardOk) ==
    IF ~IsServingType(tablet)
    THEN [NoCall EXCEPT !.pc = "done", !.ret = "nil"]
    ELSE IF ~shardOk
    THEN [NoCall EXCEPT !.pc = "done", !.serving = TRUE, !.ret = "store"]
    ELSE IF tablet.Uid \notin shard
    THEN [NoCall EXCEPT !.pc = "done", !.serving = TRUE, !.ret = "nil"]
    ELSE [NoCall EXCEPT !.pc = "get", !.serving = TRUE, !.authorized = TRUE]

\* RetryChange: read the node, call the function, and return when it fails
\* or changes nothing. getOk: the read succeeds.
retryGet(p, tablet, node, getOk) ==
    LET r == updateEndpoints(node.val, Stat(node), tablet)
        q == [p EXCEPT !.case = CaseOf(node, tablet)]
    IN  IF ~getOk THEN verifyReturn(p, "store")
        ELSE IF r.err # "nil" THEN verifyReturn(q, r.err)
        ELSE IF r.newValue = node.val THEN verifyReturn(q, "nil")
        ELSE [q EXCEPT !.pc = "set", !.old = node, !.newValue = r.newValue]

\* RetryChange: write the new data if the node still has the version read,
\* read again if it has another. setOk: the store answers.
retrySet(p, node, setOk) ==
    IF ~setOk THEN verifyReturn(p, "store")
    ELSE IF node.ver = p.old.ver
    THEN [verifyReturn(p, "nil") EXCEPT !.wrote = TRUE]
    ELSE [p EXCEPT !.pc = "get", !.retried = TRUE, !.old = NoNode,
                   !.newValue = EmptyVal]

\* The node after the write of retrySet.
setNode(p, node, setOk) ==
    IF setOk /\ node.ver = p.old.ver
    THEN [exists |-> TRUE, ver |-> node.ver + 1, val |-> p.newValue]
    ELSE node

\* ------------------------------------------- replicas registering together
\* The addresses a serving graph node holds at the start: at most one for
\* each uid, that of a replica current or stale in its host or in one port.
InitEntries ==
    {e \in AddrEntries :
        LET stale == {f \in {"Host", "vtocc", "mysql"} :
                        e[f] # vtnsAddrForTablet(ResolvedTablet(e.Uid, "replica"))[f]}
        IN  IF e.Uid = OtherUid THEN stale = {} ELSE Cardinality(stale) <= 1}

\* The lists of addresses at the start: any of the uids, in the order of the
\* uids or in the reverse order.
InitAddrs ==
    {s \in UNION {[1..n -> InitEntries] : n \in 0..Cardinality(Uids)} :
        \/ \A i, j \in DOMAIN s : i < j => s[i].Uid < s[j].Uid
        \/ \A i, j \in DOMAIN s : i < j => s[i].Uid > s[j].Uid}

InitNodes ==
    {NoNode,
     [exists |-> TRUE, ver |-> 0, val |-> EmptyVal],
     [exists |-> TRUE, ver |-> 0, val |-> GarbageVal]}
    \cup {[exists |-> TRUE, ver |-> 0, val |-> toJson(s)] : s \in InitAddrs}

NilTablet ==
    [Uid |-> OtherUid, Type |-> "nil",
     Addr |-> JoinHostPort("", 0), MysqlAddr |-> JoinHostPort("", 0)]

\* The last call of dispatchAction: how it ended (readfail, decodefail,
\* spawnfail, exitfail, ok) and what became of the readTablet after the
\* action (none: not called).
NoDispatch == [outcome |-> "none", refresh |-> "none"]

\* The agent of the event loop, before Start.
AgentInit ==
    /\ pc = "start"
    /\ _tablet = NilTablet
    /\ vtActionBinPath = ""
    /\ MycnfPath = ""
    /\ zkErr = <<>>
    /\ queue = {}
    /\ malformed = {}
    /\ nextSeq = FirstSeq
    /\ site = "none"
    /\ listedSorted = TRUE
    /\ children = <<>>
    /\ idx = 1
    /\ running = NONE
    /\ drainLog = <<>>
    /\ last = NoDispatch
    /\ launched = {}
    /\ watch = "none"

InitPublish ==
    /\ AgentInit
    /\ zkTablet = NilTablet
    /\ zkNodes = {}
    /\ zkAddrs \in InitNodes
    /\ \E types \in [Agents -> Types] :
          tab = [a \in Agents |-> ResolvedTablet(a, types[a])]
    /\ zkShard \in SUBSET {a \in Agents : IsServingType(tab[a])}
    /\ pub = [a \in Agents |-> NoCall]
    /\ calls = 0

\* Replica a calls verifyZkServingAddrs: lines 178-195.
PubBegin(a) ==
    /\ pub[a].pc \in {"idle", "done"}
    /\ calls < MaxPublish
    /\ \E shardOk \in BOOLEAN :
          pub' = [pub EXCEPT ![a] = verifyBegin(tab[a], zkShard, shardOk)]
    /\ calls' = calls + 1
    /\ UNCHANGED <<agentVars, zkAddrs, zkShard, tab>>

\* RetryChange of replica a reads the node and calls updateEndpoints.
PubGet(a) ==
    /\ pub[a].pc = "get"
    /\ \E getOk \in BOOLEAN :
          pub' = [pub EXCEPT ![a] = retryGet(@, tab[a], zkAddrs, getOk)]
    /\ UNCHANGED <<agentVars, zkAddrs, zkShard, tab, calls>>

\* RetryChange of replica a writes the node, or finds another version.
PubSet(a) ==
    /\ pub[a].pc = "set"
    /\ \E setOk \in BOOLEAN :
          /\ pub' = [pub EXCEPT ![a] = retrySet(@, zkAddrs, setOk)]
          /\ zkAddrs' = setNode(pub[a], zkAddrs, setOk)
    /\ UNCHANGED <<agentVars, zkShard, tab, calls>>

\* The process that builds the serving graph creates the node, empty.
GraphCreate ==
    /\ ~zkAddrs.exists
    /\ zkAddrs' = [exists |-> TRUE, ver |-> 0, val |-> EmptyVal]
    /\ UNCHANGED <<agentVars, zkShard, tab, pub, calls>>

\* The shard node is updated to list replica a.
ShardAdd(a) ==
    /\ a \notin zkShard
    /\ IsServingType(tab[a])
    /\ zkShard' = zkShard \cup {a}
    /\ UNCHANGED <<agentVars, zkAddrs, tab, pub, calls>>

NextPublish ==
    \/ \E a \in Agents : PubBegin(a)
    \/ \E a \in Agents : PubGet(a)
    \/ \E a \in Agents : PubSet(a)
    \/ GraphCreate
    \/ \E a \in Agents : ShardAdd(a)

SpecPublish == InitPublish /\ [][NextPublish]_vars

\* ------------------------------------------------------------------ Start
\* The replica of the agent that runs the event loop.
Self == CHOOSE a \in Agents : \A b \in Agents : a <= b

\* The candidates of resolvePaths, in the order it tries them.
BinCandidates == <<"$VTROOT/src/code.google.com/p/vitess/go/cmd/vtaction/vtaction",
                   "/usr/local/bin/vtaction">>
CnfCandidates == <<"/vt/vt_uid/my.cnf", "/var/lib/mysql/my.cnf", "/etc/my.cnf">>
Files == {BinCandidates[i] : i \in DOMAIN BinCandidates}
         \cup {CnfCandidates[i] : i \in DOMAIN CnfCandidates}
\* The files of the machines the agent is started on: none of the
\* candidates, no my.cnf, all of them.
FileSystems == {{}, {BinCandidates[1]}, Files}

\* The first of the candidates that os.Stat finds in fs, "" when none is.
FirstExisting(candidates, fs) ==
    LET found == {i \in DOMAIN candidates : candidates[i] \in fs}
    IN  IF found = {} THEN ""
        ELSE candidates[CHOOSE i \in found : \A j \in found : i <= j]

\* The tablet node as the tablet was created: addresses of another machine.
InitTablet(type) ==
    [Uid |-> Self, Type |-> type,
     Addr |-> JoinHostPort("hostB", 6701), MysqlAddr |-> JoinHostPort("hostB", 3307)]

Init ==
    /\ AgentInit
    /\ zkTablet = InitTablet("replica")
    /\ zkNodes \in SUBSET {"replication", "action"}
    /\ zkShard = {Self}
    /\ zkAddrs \in {n \in InitNodes : n.val.entries = <<>>}
    /\ tab = [a \in Agents |-> NilTablet]
    /\ pub = [a \in Agents |-> NoCall]
    /\ calls = 0

loopVars == <<queue, malformed, nextSeq, site, listedSorted, children, idx, running,
              drainLog, last, launched, watch>>

\* A readTablet that clears the cache when the read fails.
readTablet_ClearsOnError(cached, stored, ok) == IF ok THEN stored ELSE NilTablet

\* readTablet: the cache after the read; it is replaced only when the read
\* succeeds.
readTablet(cached, stored, ok) == IF ok THEN stored ELSE cached

\* Start, line 290: the first readTablet.
StartReadTablet ==
    /\ pc = "start"
    /\ \E ok \in BOOLEAN :
          /\ _tablet' = readTablet(_tablet, zkTablet, ok)
          /\ pc' = IF ok THEN "resolvePaths" ELSE "panic"
    /\ UNCHANGED <<zkTablet, zkNodes, vtActionBinPath, MycnfPath, zkErr, loopVars, graphVars>>

\* Start, line 294: resolvePaths on a machine with the files fs.
StartResolvePaths ==
    /\ pc = "resolvePaths"
    /\ \E fs \in FileSystems :
          LET bin == FirstExisting(BinCandidates, fs)
              cnf == FirstExisting(CnfCandidates, fs)
          IN  /\ vtActionBinPath' = bin
              /\ MycnfPath' = IF bin = "" THEN MycnfPath ELSE cnf
              /\ pc' = IF bin = "" \/ cnf = "" THEN "panic" ELSE "writeAddr"
    /\ UNCHANGED <<_tablet, zkTablet, zkNodes, zkErr, loopVars, graphVars>>

\* A function for RetryChange that leaves the addresses of the tablet node
\* as they are.
tabletAddrUpdate_Keep(oldTablet) == oldTablet

\* The function Start gives RetryChange: the tablet with the resolved
\* addresses of the agent.
tabletAddrUpdate(oldTablet) ==
    [oldTablet EXCEPT
        !.Addr = resolveAddr(JoinHostPort("", BindPort), Hostname(Self)),
        !.MysqlAddr = resolveAddr(JoinHostPort("", MysqlBindPort), Hostname(Self))]

\* Start, lines 299-312: the addresses are written to the tablet node.
StartWriteAddr ==
    /\ pc = "writeAddr"
    /\ \E ok \in BOOLEAN :
          /\ zkTablet' = IF ok THEN tabletAddrUpdate(zkTablet) ELSE zkTablet
          /\ pc' = IF ok THEN "readTablet2" ELSE "panic"
    /\ UNCHANGED <<_tablet, zkNodes, vtActionBinPath, MycnfPath, zkErr, loopVars, graphVars>>

\* Start, line 315: the second readTablet.
StartReadTablet2 ==
    /\ pc = "readTablet2"
    /\ \E ok \in BOOLEAN :
          /\ _tablet' = readTablet(_tablet, zkTablet, ok)
          /\ pc' = IF ok THEN "pidNode" ELSE "panic"
    /\ UNCHANGED <<zkTablet, zkNodes, vtActionBinPath, MycnfPath, zkErr, loopVars, graphVars>>

\* Start, line 319: zk.CreatePidNode.
StartPidNode ==
    /\ pc = "pidNode"
    /\ \E ok \in BOOLEAN : pc' = IF ok THEN "verifyZkPaths" ELSE "panic"
    /\ UNCHANGED <<_tablet, zkTablet, zkNodes, vtActionBinPath, MycnfPath, zkErr, loopVars,
                   graphVars>>

\* zconn.Create of verifyZkPaths: the error it is left with. A node that
\* exists gives ZNODEEXISTS, which verifyZkPaths takes for success.
createErr(node, nodes, storeOk) ==
    IF ~storeOk THEN "error" ELSE IF node \in nodes THEN "ZNODEEXISTS" ELSE "nil"

\* A verifyZkPaths that returns every error of zconn.Create, ZNODEEXISTS too.
verifyZkPaths_ExistsFatal(nodes, ok1, ok2) ==
    LET e1 == createErr("replication", nodes, ok1)
        n1 == IF e1 = "nil" THEN nodes \cup {"replication"} ELSE nodes
        e2 == createErr("action", n1, ok2)
        n2 == IF e2 = "nil" THEN n1 \cup {"action"} ELSE n1
    IN  IF e1 # "nil" THEN [nodes |-> n1, err |-> e1, errs |-> <<e1>>]
        ELSE IF e2 # "nil" THEN [nodes |-> n2, err |-> e2, errs |-> <<e1, e2>>]
        ELSE [nodes |-> n2, err |-> "nil", errs |-> <<e1, e2>>]

\* verifyZkPaths: the nodes after it, the error it returns and the errors
\* its calls of zconn.Create returned. It returns the first error that is
\* not ZNODEEXISTS, without the second Create when that is the first.
verifyZkPaths(nodes, ok1, ok2) ==
    LET e1 == createErr("replication", nodes, ok1)
        n1 == IF e1 = "nil" THEN nodes \cup {"replication"} ELSE nodes
        e2 == createErr("action", n1, ok2)
        n2 == IF e2 = "nil" THEN n1 \cup {"action"} ELSE n1
    IN  IF e1 \notin {"nil", "ZNODEEXISTS"}
        THEN [nodes |-> n1, err |-> e1, errs |-> <<e1>>]
        ELSE IF e2 \notin {"nil", "ZNODEEXISTS"}
        THEN [nodes |-> n2, err |-> e2, errs |-> <<e1, e2>>]
        ELSE [nodes |-> n2, err |-> "nil", errs |-> <<e1, e2>>]

\* Start, line 323: verifyZkPaths.
StartVerifyZkPaths ==
    /\ pc = "verifyZkPaths"
    /\ \E ok1, ok2 \in BOOLEAN :
          LET r == verifyZkPaths(zkNodes, ok1, ok2)
          IN  /\ zkNodes' = r.nodes
              /\ zkErr' = r.errs
              /\ pc' = IF r.err = "nil" THEN "verifyZkServingAddrs" ELSE "panic"
    /\ UNCHANGED <<_tablet, zkTablet, vtActionBinPath, MycnfPath, loopVars, graphVars>>

\* A Start that logs the error of verifyZkServingAddrs and goes on.
startAfterServingAddrs_Warn(ret) == "loop"

\* What Start does with the error of verifyZkServingAddrs (lines 327-331):
\* panic on an error, start the event loop otherwise.
startAfterServingAddrs(ret) == IF ret # "nil" THEN "panic" ELSE "loop"

\* Start, line 327: verifyZkServingAddrs, a step of it at a time, and then
\* the go statement of line 331.
StartServingAddrs ==
    /\ pc = "verifyZkServingAddrs"
    /\ \/ /\ pub[Self].pc = "idle"
          /\ \E shardOk \in BOOLEAN :
                pub' = [pub EXCEPT ![Self] = verifyBegin(_tablet, zkShard, shardOk)]
          /\ UNCHANGED <<zkAddrs, pc, zkErr>>
       \/ /\ pub[Self].pc = "get"
          /\ \E getOk \in BOOLEAN :
                pub' = [pub EXCEPT ![Self] = retryGet(@, _tablet, zkAddrs, getOk)]
          /\ UNCHANGED <<zkAddrs, pc, zkErr>>
       \/ /\ pub[Self].pc = "set"
          /\ \E setOk \in BOOLEAN :
                /\ pub' = [pub EXCEPT ![Self] = retrySet(@, zkAddrs, setOk)]
                /\ zkAddrs' = setNode(pub[Self], zkAddrs, setOk)
          /\ UNCHANGED <<pc, zkErr>>
       \/ /\ pub[Self].pc = "done"
          /\ pc' = startAfterServingAddrs(pub[Self].ret)
          /\ pub' = [pub EXCEPT ![Self] = IF pc' = "loop" THEN NoCall ELSE @]
          /\ zkErr' = IF pc' = "loop" THEN <<>> ELSE zkErr
          /\ UNCHANGED zkAddrs
    /\ UNCHANGED <<_tablet, zkTablet, zkNodes, vtActionBinPath, MycnfPath, loopVars,
                   zkShard, tab, calls>>

\* --------------------------------------------------------- the event loop
startVars == <<vtActionBinPath, MycnfPath, zkNodes, zkErr>>

\* handleActionQueue without the sort: the children as ChildrenW returned them.
sortChildren_Unsorted(list) == list

\* The children handleActionQueue dispatches, from those ChildrenW returned.
sortChildren(list) == SortStrings(list)

\* handleActionQueue, line 143: ChildrenW. When it fails the call returns the
\* error: the loop sleeps (line 341), line 352 goes on. When it succeeds the
\* watch is set and the children are sorted.
HandleActionQueue ==
    /\ pc \in {"loop", "event"}
    /\ \/ /\ watch' = "none"
          /\ pc' = IF pc = "loop" THEN "sleep" ELSE "loop"
          /\ UNCHANGED <<site, listedSorted, children, idx, drainLog, last>>
       \/ /\ "action" \in zkNodes
          /\ \E list \in Listings(queue) :
                /\ listedSorted' = (list = SortStrings(list))
                /\ children' = sortChildren(list)
          /\ watch' = "armed"
          /\ site' = IF pc = "loop" THEN "top" ELSE "event"
          /\ idx' = 1
          /\ drainLog' = <<>>
          /\ last' = NoDispatch
          /\ pc' = "dispatch"
    /\ UNCHANGED <<_tablet, zkTablet, startVars, queue, malformed, nextSeq, running,
                   launched, graphVars>>

\* A for loop that a failed dispatchAction ends.
nextChild_StopOnFailure(i, n, failed) == IF failed THEN n + 1 ELSE i + 1

\* Where the for loop of handleActionQueue goes after a call of
\* dispatchAction: on to the next child, whether the call failed or not.
nextChild(i, n, failed) == i + 1

\* cmd.Start in the place of cmd.CombinedOutput: dispatchAction goes on
\* while vtaction runs.
CombinedOutput_Start == "dispatch"

\* cmd.CombinedOutput (line 125) starts vtaction and waits until it has
\* exited: where the event loop is while vtaction runs.
CombinedOutput == "exec"

\* dispatchAction up to the start of vtaction (lines 101-125): the read of
\* the node, the decoding, the launch. A failure ends the call.
DispatchBegin ==
    /\ pc = "dispatch"
    /\ idx <= Len(children)
    /\ LET child == children[idx]
       IN  \E getOk \in (IF child \in queue THEN BOOLEAN ELSE {FALSE}),
              spawnOk \in BOOLEAN :
              IF ~getOk \/ child \in malformed \/ ~spawnOk
              THEN /\ drainLog' = Append(drainLog, [node |-> child, failed |-> TRUE])
                   /\ last' = [outcome |-> IF ~getOk THEN "readfail"
                                           ELSE IF child \in malformed THEN "decodefail"
                                           ELSE "spawnfail",
                               refresh |-> "none"]
                   /\ idx' = nextChild(idx, Len(children), TRUE)
                   /\ UNCHANGED <<pc, running, launched>>
              ELSE /\ running' = child
                   /\ launched' = launched \cup {child}
                   /\ pc' = CombinedOutput
                   /\ UNCHANGED <<drainLog, last, idx>>
    /\ UNCHANGED <<_tablet, zkTablet, startVars, queue, malformed, nextSeq, site,
                   listedSorted, children, watch, graphVars>>

\* What dispatchAction does when vtaction has returned (lines 126-136):
\* whether it calls readTablet.
rereads(exit) == exit = "ok"

\* vtaction returns: it may have removed its node and changed the type in
\* the tablet node. dispatchAction logs the result and rereads the tablet.
DispatchEnd ==
    /\ pc = "exec"
    /\ \E exit \in {"ok", "exitfail"}, del \in BOOLEAN, rdOk \in BOOLEAN,
          type \in Types :
          /\ queue' = IF del THEN queue \ {running} ELSE queue
          /\ watch' = IF del /\ watch = "armed" THEN "child" ELSE watch
          /\ zkTablet' = [zkTablet EXCEPT !.Type = type]
          /\ _tablet' = IF rereads(exit) THEN readTablet(_tablet, zkTablet', rdOk)
                        ELSE _tablet
          /\ drainLog' = Append(drainLog, [node |-> running, failed |-> exit # "ok"])
          /\ last' = [outcome |-> exit,
                      refresh |-> IF ~rereads(exit) THEN "none"
                                  ELSE IF rdOk THEN "ok" ELSE "failed"]
          /\ idx' = nextChild(idx, Len(children), exit # "ok")
    /\ running' = NONE
    /\ pc' = "dispatch"
    /\ UNCHANGED <<startVars, malformed, nextSeq, site, listedSorted, children,
                   launched, graphVars>>

\* handleActionQueue returns the watch and no error (line 154): the loop
\* waits for the event (line 345), line 352 goes back to the top.
HandleReturn ==
    /\ pc = "dispatch"
    /\ idx > Len(children)
    /\ pc' = IF site = "top" THEN "wait" ELSE "loop"
    /\ site' = "none"
    /\ listedSorted' = TRUE
    /\ children' = <<>>
    /\ idx' = 1
    /\ drainLog' = <<>>
    /\ last' = NoDispatch
    /\ UNCHANGED <<_tablet, zkTablet, startVars, queue, malformed, nextSeq, running,
                   launched, watch, graphVars>>

\* A loop that receives from the watch again after EVENT_CHILD, without a
\* call of handleActionQueue that sets the next watch.
afterEvent_IgnoreChild(event) ==
    IF event = "notok" THEN "sleep" ELSE IF event = "child" THEN "wait" ELSE "loop"

\* A loop that panics on the event of a lost connection.
afterEvent_NotOkFatal(event) ==
    IF event = "notok" THEN "panic" ELSE IF event = "child" THEN "event" ELSE "loop"

\* Where the loop goes with the event of the watch (lines 345-353).
afterEvent(event) ==
    IF event = "notok" THEN "sleep" ELSE IF event = "child" THEN "event" ELSE "loop"

\* The event loop receives the event of the watch.
WatchEvent ==
    /\ pc = "wait"
    /\ watch \in {"child", "notok", "other"}
    /\ pc' = afterEvent(watch)
    /\ watch' = "none"
    /\ UNCHANGED <<_tablet, zkTablet, startVars, queue, malformed, nextSeq, site,
                   listedSorted, children, idx, running, drainLog, last, launched,
                   graphVars>>

\* time.Sleep of lines 341 and 350 ends.
Sleep ==
    /\ pc = "sleep"
    /\ pc' = "loop"
    /\ UNCHANGED <<_tablet, zkTablet, startVars, loopVars, graphVars>>

\* An actor creates the next action node, with data that decodes or not.
CreateAction ==
    /\ "action" \in zkNodes
    /\ nextSeq < FirstSeq + MaxNodes
    /\ \E good \in BOOLEAN :
          malformed' = IF good THEN malformed ELSE malformed \cup {Name(nextSeq)}
    /\ queue' = queue \cup {Name(nextSeq)}
    /\ nextSeq' = nextSeq + 1
    /\ watch' = IF watch = "armed" THEN "child" ELSE watch
    /\ UNCHANGED <<pc, _tablet, zkTablet, startVars, site, listedSorted, children, idx,
                   running, drainLog, last, launched, graphVars>>

\* The zk session changes state: the watch gets an event that is not OK
\* (the connection is lost) or an event of another type.
SessionEvent ==
    /\ watch = "armed"
    /\ watch' \in {"notok", "other"}
    /\ UNCHANGED <<pc, _tablet, zkTablet, startVars, queue, malformed, nextSeq, site,
                   listedSorted, children, idx, running, drainLog, last, launched,
                   graphVars>>

Next ==
    \/ StartReadTablet
    \/ StartResolvePaths
    \/ StartWriteAddr
    \/ StartReadTablet2
    \/ StartPidNode
    \/ StartVerifyZkPaths
    \/ StartServingAddrs
    \/ HandleActionQueue
    \/ DispatchBegin
    \/ DispatchEnd
    \/ HandleReturn
    \/ WatchEvent
    \/ Sleep
    \/ CreateAction
    \/ SessionEvent

Spec == Init /\ [][Next]_vars

\* ChildrenW succeeds: the store is reachable when handleActionQueue lists.
ListChildren == HandleActionQueue /\ pc' = "dispatch"

\* The store is reachable again and again, vtaction exits, the event of a
\* watch is delivered, the sleep ends, and the goroutine of the loop runs.
Fairness ==
    /\ SF_vars(ListChildren)
    /\ WF_vars(DispatchBegin)
    /\ WF_vars(DispatchEnd)
    /\ WF_vars(HandleReturn)
    /\ WF_vars(WatchEvent)
    /\ WF_vars(Sleep)

SpecLive == Init /\ [][Next]_vars /\ Fairness

\* ------------------------------------------------- the serving graph claims
\* The address of replica a, from its resolved host and ports.
ExpectedEntry(a) ==
    [Uid |-> a, Host |-> tab[a].Addr[1], vtocc |-> tab[a].Addr[2],
     mysql |-> tab[a].MysqlAddr[2]]

\* Replica a's call of verifyZkServingAddrs returns nil in this step.
Returns(a) ==
    /\ pub[a].pc \in {"get", "set"}
    /\ pub'[a].pc = "done"
    /\ pub'[a].ret = "nil"

\* C5: a call that finds the address of the replica in the node with a host
\* or a port that is not the replica's leaves, where it returns, the node
\* with the current host and ports in that address, and with the same
\* number of addresses, the others unchanged and in the same order.
C5_StaleEntryOverwritten ==
    [][\A a \in Agents :
        (Returns(a) /\ pub'[a].case = "stale") =>
            LET old == zkAddrs.val.entries
                new == zkAddrs'.val.entries
            IN  /\ Len(new) = Len(old)
                /\ \A i \in DOMAIN old :
                      new[i] = IF old[i].Uid = a THEN ExpectedEntry(a) ELSE old[i]]_vars

\* C6: a call that finds the node without an address of the replica (the
\* data empty, or a list that lacks its uid) and returns nil has written the
\* node: the addresses that were there, in their order, followed by the one
\* address of the replica.
C6_AppendsOneEntry ==
    [][\A a \in Agents :
        (Returns(a) /\ pub'[a].case \in {"empty", "absent"}) =>
            /\ pub'[a].wrote
            /\ zkAddrs'.val = toJson(Append(zkAddrs.val.entries, ExpectedEntry(a)))]_vars

C6_Witness ==
    \E a \in Agents :
        /\ pub[a].pc = "done" /\ pub[a].wrote /\ pub[a].case = "absent"
        /\ Len(zkAddrs.val.entries) >= 2
        /\ zkAddrs.val.entries[Len(zkAddrs.val.entries)] = ExpectedEntry(a)

\* C7: a call that finds no node returns nil after the warning that the
\* update is skipped, and has not written: the node is not created.
C7_SkipsMissingNode ==
    \A a \in Agents :
        (pub[a].pc = "done" /\ pub[a].case = "nonode") =>
            /\ pub[a].rc = "skip"
            /\ pub[a].ret = "nil"
            /\ pub[a].warned
            /\ ~pub[a].wrote

C7_Witness ==
    \E a \in Agents :
        /\ pub[a].pc = "done" /\ pub[a].case = "nonode" /\ pub[a].ret = "nil"
        /\ ~zkAddrs.exists

\* C8: the node never holds two addresses with the same uid.
C8_OneAddressPerUid ==
    \A i, j \in DOMAIN zkAddrs.val.entries :
        i # j => zkAddrs.val.entries[i].Uid # zkAddrs.val.entries[j].Uid

C8_Witness ==
    \E a, b \in Agents :
        /\ a # b
        /\ pub[a].wrote /\ pub[b].wrote /\ pub[b].retried
        /\ \E i, j \in DOMAIN zkAddrs.val.entries :
              zkAddrs.val.entries[i].Uid = a /\ zkAddrs.val.entries[j].Uid = b

\* C9: a call writes the node only for a replica of a serving type that the
\* shard node lists; for a replica of another type, and for one the shard
\* node read does not list, the call returns nil and the node is unchanged.
C9_WritesOnlyWhenAuthorized ==
    [][\A a \in Agents :
        /\ (pub[a].pc = "set" /\ zkAddrs' # zkAddrs) =>
              (IsServingType(tab[a]) /\ a \in zkShard)
        /\ pub'[a].pc \in {"get", "set"} =>
              (IsServingType(tab[a]) /\ a \in zkShard)
        /\ (/\ pub[a].pc \in {"idle", "done"}
            /\ pub'[a] # pub[a]
            /\ ~IsServingType(tab[a]) \/ (a \notin zkShard /\ pub'[a].ret # "store")) =>
              (pub'[a].pc = "done" /\ pub'[a].ret = "nil" /\ zkAddrs' = zkAddrs)]_vars

C9_Witness ==
    \E a, b \in Agents :
        /\ pub[a].pc = "done" /\ pub[a].ret = "nil" /\ ~pub[a].wrote
        /\ IsServingType(tab[a]) /\ a \notin zkShard
        /\ zkAddrs.exists /\ zkAddrs.val.kind = "empty"
        /\ pub[b].pc = "done" /\ ~IsServingType(tab[b]) /\ pub[b].ret = "nil"

\* C12: a call that reads the node and finds data that does not decode
\* returns the error of the decoding, and the node is as it was: its data
\* and its version are unchanged.
C12_DecodeErrorLeavesNode ==
    [][\A a \in Agents :
        (/\ pub[a].pc = "get"
         /\ pub'[a] # pub[a]
         /\ zkAddrs.exists
         /\ zkAddrs.val.kind = "garbage"
         /\ pub'[a].ret # "store") =>
            /\ pub'[a].pc = "done"
            /\ pub'[a].rc = "decode"
            /\ pub'[a].ret = "decode"
            /\ ~pub'[a].wrote
            /\ zkAddrs' = zkAddrs]_vars

C12_Witness ==
    \E a \in Agents :
        /\ pub[a].pc = "done" /\ pub[a].case = "garbage" /\ pub[a].ret = "decode"
        /\ ~pub[a].wrote
        /\ zkAddrs = [exists |-> TRUE, ver |-> 0, val |-> GarbageVal]

\* C20: with replicas in verifyZkServingAddrs at the same time, every
\* address of the node stays in it, in its place, whatever the order of
\* their reads, writes and retries, and only the call of its replica
\* changes it; and a call of a replica the shard lists that found the node
\* and returned nil leaves the node with an address of that replica.
C20_NoLostUpdate ==
    [][LET old == zkAddrs.val.entries
           new == zkAddrs'.val.entries
       IN  /\ \A i \in DOMAIN old :
                 /\ i \in DOMAIN new
                 /\ new[i].Uid = old[i].Uid
                 /\ new[i] # old[i] =>
                       \E a \in Agents : pub'[a] # pub[a] /\ old[i].Uid = a
           /\ \A a \in Agents :
                 (/\ pub'[a].pc = "done"
                  /\ pub'[a].authorized
                  /\ pub'[a].ret = "nil"
                  /\ pub'[a].case # "nonode") =>
                     \E i \in DOMAIN new : new[i].Uid = a]_vars

C20_Witness ==
    \E a, b \in Agents :
        /\ a # b
        /\ pub[a].pc = "done" /\ pub[a].wrote /\ pub[a].case = "absent"
        /\ pub[b].pc = "done" /\ pub[b].wrote /\ pub[b].case = "absent"
        /\ pub[b].retried
        /\ Len(zkAddrs.val.entries) = 3
        /\ zkAddrs.val.entries[1].Uid = OtherUid
        /\ zkAddrs.val.entries[2].Uid = a
        /\ zkAddrs.val.entries[3].Uid = b

\* ---------------------------------------------------- the event loop claims
\* The sequence number in the name of an action node.
RECURSIVE NumOf(_)
NumOf(name) ==
    IF name = <<>> THEN 0
    ELSE NumOf(SubSeq(name, 1, Len(name) - 1)) * 10 + name[Len(name)]

\* The nodes dispatchAction was called for in the current handleActionQueue.
Dispatched == [i \in DOMAIN drainLog |-> drainLog[i].node]

\* The for loop of handleActionQueue is over.
DrainDone == pc = "dispatch" /\ idx > Len(children)

\* C1: vtaction is never started for an action node it was started for
\* before, also when the node is still in the queue.
C1_LaunchedOnce ==
    [][(pc = "dispatch" /\ pc' = "exec") => running' \notin launched]_vars

\* C2: one handleActionQueue calls dispatchAction for the action nodes in
\* the order of their sequence numbers, the order of their creation, in
\* whatever order ChildrenW returned them; when its loop is over it has
\* called it for all of them.
C2_AscendingOrder ==
    /\ \A i, j \in DOMAIN drainLog :
          i < j => NumOf(drainLog[i].node) < NumOf(drainLog[j].node)
    /\ DrainDone => Len(drainLog) = Len(children)

C2_Witness ==
    /\ DrainDone
    /\ ~listedSorted
    /\ Len(drainLog) >= 2

\* C3: after a call of dispatchAction in which vtaction ran, with exit
\* status zero or not, readTablet has been called.
C3_RefreshAfterAction ==
    last.outcome \in {"ok", "exitfail"} => last.refresh # "none"

\* C4: in one handleActionQueue, dispatchAction has been called exactly once
\* for each child before the one the loop is at, in sorted order, whether
\* calls failed or not; and the loop waits on a watch that ChildrenW set.
C4_FailureDoesNotStopDrain ==
    /\ pc \in {"dispatch", "exec"} => Dispatched = SubSeq(children, 1, idx - 1)
    /\ pc = "wait" => watch \in {"armed", "child", "notok", "other"}

C4_Witness ==
    /\ DrainDone
    /\ site = "top"
    /\ Len(drainLog) >= 2
    /\ drainLog[1].failed
    /\ ~drainLog[2].failed

PathOf(n) == IF n = 1 THEN "replication" ELSE "action"

\* C11: verifyZkPaths takes ZNODEEXISTS from a Create for success: Start
\* goes on to verifyZkServingAddrs exactly when each of the two Creates
\* returned nil or ZNODEEXISTS, the latter only for a node that was there,
\* and then both nodes exist; on any other error of a Create Start panics,
\* and no node is removed.
C11_IdempotentNodeCreation ==
    [][(pc = "verifyZkPaths" /\ pc' # pc) =>
          /\ zkErr' # <<>>
          /\ pc' = IF \A i \in DOMAIN zkErr' : zkErr'[i] \in {"nil", "ZNODEEXISTS"}
                   THEN "verifyZkServingAddrs" ELSE "panic"
          /\ pc' = "verifyZkServingAddrs" =>
                (Len(zkErr') = 2 /\ zkNodes' = {"replication", "action"})
          /\ \A i \in DOMAIN zkErr' :
                /\ zkErr'[i] = "ZNODEEXISTS" <=> (zkErr'[i] # "error" /\ PathOf(i) \in zkNodes)
                /\ zkErr'[i] = "nil" => PathOf(i) \in zkNodes'
          /\ zkNodes \subseteq zkNodes']_vars

C11_Witness ==
    /\ pc = "verifyZkServingAddrs"
    /\ zkErr = <<"ZNODEEXISTS", "ZNODEEXISTS">>
    /\ zkNodes = {"replication", "action"}

\* Tablet(): the cached tablet, nil before the first readTablet that succeeds.
Tablet == _tablet

\* C13: a readTablet that fails (in Start, where Start then panics, or in
\* dispatchAction after vtaction) leaves the cache as it was, one that
\* succeeds makes it the tablet node; Tablet() is nil until the first
\* readTablet has succeeded and never after.
C13_FailedRefreshKeepsCache ==
    [][/\ (pc \in {"start", "readTablet2"} /\ pc' = "panic") => Tablet' = Tablet
       /\ (pc \in {"start", "readTablet2"} /\ pc' \notin {pc, "panic"}) =>
             Tablet' = zkTablet
       /\ (pc = "exec" /\ last'.refresh = "failed") => Tablet' = Tablet
       /\ (pc = "exec" /\ last'.refresh = "ok") => Tablet' = zkTablet'
       /\ (pc = "start" /\ Tablet' # Tablet) => pc' = "resolvePaths"
       /\ Tablet = NilTablet =>
             \/ pc = "start"
             \/ pc = "panic" /\ vtActionBinPath = ""
       /\ pc = "start" => Tablet = NilTablet]_vars

C13_Witness ==
    /\ pc = "dispatch"
    /\ last.outcome = "ok"
    /\ last.refresh = "failed"
    /\ Tablet # NilTablet
    /\ Tablet.Type # zkTablet.Type

\* C14: vtaction is started only when no vtaction is running, and by the
\* event loop, which then does nothing until that vtaction has exited: it
\* lists no children and starts no other vtaction, in this call of
\* handleActionQueue or in a later one.
C14_OneActionAtATime ==
    [][/\ (running' # NONE /\ running' # running) =>
             (running = NONE /\ pc = "dispatch" /\ pc' = "exec")
       /\ running # NONE =>
             /\ pc = "exec"
             /\ (pc' # pc => (pc' = "dispatch" /\ running' = NONE))
             /\ <<children, idx, site>>' = <<children, idx, site>> \/ running' = NONE
       /\ pc = "exec" => running # NONE]_vars

C14_Witness ==
    /\ pc = "exec"
    /\ site = "event"
    /\ running # NONE
    /\ Len(drainLog) >= 1
    /\ ~drainLog[1].failed
    /\ running \in launched
    /\ Cardinality(launched) >= 2

\* ------------------------------------------------ the claims on the loop
\* A call of handleActionQueue returns the error of ChildrenW in this step.
DrainFails == pc \in {"loop", "event"} /\ pc' \notin {pc, "dispatch"}

\* C15: after a handleActionQueue that returns the error of ChildrenW the
\* event loop sleeps, before it calls handleActionQueue again.
C15_FailedDrainSleeps ==
    [][DrainFails => pc' = "sleep"]_vars

\* C16: when a handleActionQueue has returned without error the event loop
\* waits for the event of the watch that call set, before it calls
\* handleActionQueue again.
C16_DrainThenWait ==
    [][(DrainDone /\ pc' # pc) => (pc' = "wait" /\ watch' = watch)]_vars

\* The event loop runs: Start has reached its go statement.
LoopStarted == pc \in {"loop", "dispatch", "exec", "wait", "event", "sleep"}

\* dispatchAction is called, or has been called in the current
\* handleActionQueue, for the action node of sequence number n.
DispatchedNow(n) ==
    \/ running = Name(n)
    \/ \E i \in DOMAIN drainLog : drainLog[i].node = Name(n)

\* C17: when the store is reachable again and again, events are delivered
\* and vtaction exits, dispatchAction is called for every action node that
\* is in the queue while the event loop runs, whenever it was created.
C17_EveryNodeDispatched ==
    \A n \in SeqNums :
        <>(Name(n) \in queue /\ LoopStarted) => <>DispatchedNow(n)

C17_Witness ==
    /\ pc = "exec"
    /\ site = "event"
    /\ children = <<Name(FirstSeq + 1)>>
    /\ DispatchedNow(FirstSeq + 1)
    /\ launched = {Name(FirstSeq), Name(FirstSeq + 1)}
    /\ queue = {Name(FirstSeq + 1)}

\* The event loop is at line 338, about to call handleActionQueue.
AtDrain == pc = "loop"

\* The event loop waits on a watch that has no event yet.
Blocked == pc = "wait" /\ watch = "armed"

\* The last dispatchAction of the handleActionQueue in progress failed: the
\* read of the node, the decoding, vtaction, or the readTablet after it.
DispatchFailed ==
    /\ pc = "dispatch"
    /\ \/ last.outcome \in {"readfail", "decodefail", "spawnfail", "exitfail"}
       \/ last.refresh = "failed"

\* C18: the event loop, once started, stays in its loop: no step takes it
\* to a panic or out of the loop. After an error of ChildrenW (the sleep), an
\* event that is not OK or of another type, and a child event, it comes
\* back to the handleActionQueue of line 338; after a dispatchAction that
\* failed the handleActionQueue goes on and returns, and the loop is back
\* at line 338 or waits on the watch.
C18_LoopNeverStops ==
    /\ [][LoopStarted => LoopStarted']_vars
    /\ (pc = "sleep") ~> AtDrain
    /\ (pc = "wait" /\ watch \in {"notok", "other", "child"}) ~> AtDrain
    /\ DispatchFailed ~> (AtDrain \/ pc = "wait")

\* Every node of the queue was listed by the last handleActionQueue, the
\* dispatchAction of each of them failed, and the loop waits on its watch.
C18_Witness ==
    /\ Blocked
    /\ Cardinality(queue) >= 2
    /\ queue \cap malformed # {}
    /\ launched = {}

\* The steps of Start, in the order of its statements, and the event loop
\* its go statement starts.
StartOrder ==
    <<"start", "resolvePaths", "writeAddr", "readTablet2", "pidNode", "verifyZkPaths",
      "verifyZkServingAddrs", "loop">>

\* The addresses Start resolves for the agent.
BoundAddr == resolveAddr(JoinHostPort("", BindPort), Hostname(Self))
BoundMysqlAddr == resolveAddr(JoinHostPort("", MysqlBindPort), Hostname(Self))

\* C19: Start takes its steps in order, each one after the one before it
\* has succeeded, and panics for good when one fails: the first readTablet
\* (the cache stays nil), resolvePaths (a path is missing), the write of the
\* addresses (the tablet node is unchanged), the second readTablet (the
\* cache is not the tablet node), CreatePidNode, verifyZkPaths. So
\* verifyZkServingAddrs runs with the resolved addresses in the tablet node
\* and in the cache, and handleActionQueue lists and dispatches nothing
\* before the event loop is started.
C19_BootstrapOrder ==
    [][/\ \A i \in 1..(Len(StartOrder) - 1) :
             (pc = StartOrder[i] /\ pc' # pc) => pc' \in {StartOrder[i + 1], "panic"}
       /\ pc = "panic" => pc' = "panic"
       /\ (pc = "start" /\ pc' # pc) =>
             (pc' = "panic" <=> Tablet' = NilTablet)
       /\ (pc = "resolvePaths" /\ pc' # pc) =>
             (pc' = "panic" <=> (vtActionBinPath' = "" \/ MycnfPath' = ""))
       /\ (pc = "writeAddr" /\ pc' # pc) =>
             /\ pc' = "panic" <=> zkTablet' = zkTablet
             /\ pc' # "panic" =>
                   (zkTablet'.Addr = BoundAddr /\ zkTablet'.MysqlAddr = BoundMysqlAddr)
       /\ (pc = "readTablet2" /\ pc' # pc) =>
             (pc' = "panic" <=> Tablet' # zkTablet)
       /\ pub[Self] # NoCall =>
             /\ pc \in {"verifyZkServingAddrs", "panic"}
             /\ zkTablet.Addr = BoundAddr /\ zkTablet.MysqlAddr = BoundMysqlAddr
             /\ Tablet = zkTablet
       /\ ~LoopStarted =>
             /\ children = <<>> /\ drainLog = <<>> /\ running = NONE
             /\ launched = {} /\ watch = "none"
       /\ (~LoopStarted /\ LoopStarted') =>
             /\ vtActionBinPath # "" /\ MycnfPath # ""
             /\ zkNodes = {"replication", "action"}
             /\ Tablet = zkTablet /\ Tablet.Addr = BoundAddr]_vars

C19_Witness ==
    /\ pc = "verifyZkServingAddrs"
    /\ pub[Self].pc = "set"
    /\ Tablet = zkTablet
    /\ Tablet.Addr = BoundAddr
    /\ Tablet.MysqlAddr = BoundMysqlAddr
    /\ queue # {}
    /\ launched = {}

====
